---- MODULE Spec2Model ----
(***************************************************************************)
(* Model of the `broadcasted` composable (src/src/composables/             *)
(* broadcasted.ts): a Vue customRef whose value is mirrored over a         *)
(* BroadcastChannel, with a sentinel health check that re-creates a dead   *)
(* channel.  Two bindings live in one browsing context and share the       *)
(* channel name; other contexts are the environment.  The earlier draft    *)
(* of the composable (src/src/composables/useBroadcast.ts: one channel per *)
(* topic, raw values as messages, no health check) is modelled beside it.  *)
(*                                                                         *)
(* JavaScript values are written as strings holding their source text:     *)
(* "0", "5", "7" are numbers, "fn" is a function value (which the          *)
(* structured-clone step of postMessage rejects), "undefined" is           *)
(* undefined.                                                              *)
(***************************************************************************)
EXTENDS Integers, Sequences, FiniteSets, TLC

\* Line numbers are those of broadcasted.ts unless useBroadcast.ts is named.
VARIABLES
    impl,                        \* [binding -> "broadcasted" | "useBroadcast"] the composable called
    isSupported,                 \* [binding -> BOOLEAN] 'BroadcastChannel' in window (line 37; useBroadcast.ts:44)
    options,                     \* [binding -> Options] the third argument: timeoutInMs given or not,
                                 \*   errorCallback supplied or not (lines 14-23, 33)
    triggerRegistered,           \* [binding -> BOOLEAN] triggerReactiveValueChangeCallback is set (lines 61, 160)
    event,                       \* [binding -> topic]  `event` (line 29); `topic` (useBroadcast.ts:32)
    timeoutInMs,                 \* [binding -> ms]     channelHealthCheckTimeoutInMs (line 54)
    value,                       \* [binding -> value]  the closed-over `value` (line 30)
    channel,                     \* [binding -> index]  channel.value (line 53); 0 is no channel (useBroadcast.ts:45)
    handles,                     \* [binding -> [index -> handle]] every BroadcastChannel object made (lines 53, 72)
    phase,                       \* [binding -> "absent" | "setup" | "mounted" | "unmounted"] (lines 120, 137)
    channelHealthCheckInterval,  \* [binding -> 0 (null) | timer id] (line 56)
    timers,                      \* [binding -> Nat] intervals the platform runs for the binding (lines 132, 142)
    tasks,                       \* the context's queue of message-delivery tasks (listener of line 126)
    last,                        \* what the most recent step did: trigger() calls, posts, throw
    effects                      \* the same step's console.error calls, errorCallback calls, statement order

config == <<impl, isSupported, options, triggerRegistered, event, timeoutInMs>>

vars == <<impl, isSupported, options, triggerRegistered, event, timeoutInMs,
          value, channel, handles, phase, channelHealthCheckInterval, timers,
          tasks, last, effects>>

-----------------------------------------------------------------------------
(* Bounds *)

MaxHandles == 3      \* BroadcastChannel objects one binding may construct
MaxTasks == 1        \* pending delivery tasks below which a new post is modelled

-----------------------------------------------------------------------------
(* Program constants and input domains *)

Bindings == {"A", "B"}
BindingOrder == <<"A", "B">>
Topics == {"HelloWorld", "HelloWorld1"}
UseBroadcastTopics == {"CountIncreased", "UserCreated"}
CHANNEL_NAME == "ap"
CHANNEL_HEALTH_CHECK_EVENT_NAME == "channelHealthCheck"
DefaultTimeoutInMs == 1000

\* Options: an optional field is a sequence, empty when the caller omitted it.
Omitted == <<>>
Given(x) == <<x>>
Options(timeout, callback) == [timeoutInMs |-> timeout, errorCallback |-> callback]
TimeoutOptions == {Omitted, Given(0)}

\* options?.timeoutInMs ?? 1000
ChannelHealthCheckTimeoutInMs(opts) ==
    IF opts.timeoutInMs = Omitted THEN DefaultTimeoutInMs ELSE opts.timeoutInMs[1]
Undefined == "undefined"
InitialValue == "0"
SetValues == {"5", "7", "fn"}
RemoteValues == {"7"}
EventListenerKinds == {"message", "messageerror"}

IsCloneable(v) == v # "fn"

Handle(state, listeners, closedBy) ==
    [state |-> state, listeners |-> listeners, closedBy |-> closedBy]
NoHandle == Handle("none", {}, "nobody")
NewBroadcastChannel == Handle("open", {}, "nobody")

ChannelEvent(name, data) == [event |-> Undefined, name |-> name, data |-> data]
HealthCheckMessage ==
    [event |-> CHANNEL_HEALTH_CHECK_EVENT_NAME, name |-> Undefined, data |-> Undefined]

\* useBroadcast.ts posts the bare value: a message with no envelope fields.
RawMessage(data) == [event |-> Undefined, name |-> Undefined, data |-> data]

NoMessage == [event |-> "none", name |-> "none", data |-> "none"]

-----------------------------------------------------------------------------
(* The platform's BroadcastChannel.postMessage *)

\* postMessage throws InvalidStateError on a closed channel and DataCloneError
\* on a message that cannot be structured-cloned.
PostMessageThrows(h, m) == h.state # "open" \/ ~IsCloneable(m.data)

RECURSIVE SetToSeq(_)
SetToSeq(S) ==
    IF S = {} THEN <<>>
    ELSE LET x == CHOOSE y \in S : \A z \in S : y <= z
         IN <<x>> \o SetToSeq(S \ {x})

OpenHandles(c) == {h \in 1..MaxHandles : handles[c][h].state = "open"}

\* The name a binding constructs its channels with.
ChannelName(b) == IF impl[b] = "broadcasted" THEN CHANNEL_NAME ELSE event[b]

\* The delivery tasks one posted message queues: one per open channel object of
\* the same name, the posting binding's own objects excepted.
RECURSIVE DeliveriesFrom(_, _, _, _)
DeliveriesFrom(src, name, m, i) ==
    IF i > Len(BindingOrder) THEN <<>>
    ELSE LET c == BindingOrder[i]
             hs == IF c = src \/ ChannelName(c) # name THEN <<>>
                   ELSE SetToSeq(OpenHandles(c))
         IN [k \in 1..Len(hs) |-> [b |-> c, h |-> hs[k], msg |-> m]]
            \o DeliveriesFrom(src, name, m, i + 1)

RECURSIVE DeliveriesOfAll(_, _)
DeliveriesOfAll(src, sent) ==
    IF sent = <<>> THEN <<>>
    ELSE DeliveriesFrom(src, ChannelName(src), Head(sent).msg, 1)
            \o DeliveriesOfAll(src, Tail(sent))

-----------------------------------------------------------------------------
(* broadcasted.ts *)

\* The index of the handle a reopen would construct.
NextHandle(hs) == Cardinality({h \in 1..MaxHandles : hs[h].state # "none"}) + 1

\* Variant: the catch block only logs and keeps the dead handle.
RunChannelHealthCheck_LogOnly(ch, hs) ==
    IF ~PostMessageThrows(hs[ch], HealthCheckMessage)
    THEN [channel |-> ch, handles |-> hs,
          sent |-> <<[h |-> ch, msg |-> HealthCheckMessage]>>,
          reopened |-> FALSE, threw |-> FALSE]
    ELSE [channel |-> ch, handles |-> hs, sent |-> <<>>,
          reopened |-> FALSE, threw |-> FALSE]

\* Variant: a new BroadcastChannel is constructed on every check, while the
\* model still has a fresh index.
RunChannelHealthCheck_AlwaysReopen(ch, hs) ==
    IF NextHandle(hs) > MaxHandles
    THEN [channel |-> ch, handles |-> hs, sent |-> <<>>,
          reopened |-> FALSE, threw |-> FALSE]
    ELSE [channel |-> NextHandle(hs),
          handles |-> [hs EXCEPT ![NextHandle(hs)] = NewBroadcastChannel],
          sent |-> IF PostMessageThrows(hs[ch], HealthCheckMessage) THEN <<>>
                   ELSE <<[h |-> ch, msg |-> HealthCheckMessage]>>,
          reopened |-> TRUE, threw |-> FALSE]

\* runChannelHealthCheck: post the sentinel; if that throws, replace the handle.
\* Result: the binding's current handle index, its handles, the messages
\* posted, and whether the handle was replaced.
RunChannelHealthCheck(ch, hs) ==
    IF ~PostMessageThrows(hs[ch], HealthCheckMessage)
    THEN [channel |-> ch, handles |-> hs,
          sent |-> <<[h |-> ch, msg |-> HealthCheckMessage]>>,
          reopened |-> FALSE, threw |-> FALSE]
    ELSE [channel |-> NextHandle(hs),
          handles |-> [hs EXCEPT ![NextHandle(hs)] = NewBroadcastChannel],
          sent |-> <<>>,
          reopened |-> TRUE, threw |-> FALSE]

\* Variant: no health check before the payload is posted.
PostToChannel_NoHealthCheck(topic, ch, hs, newValue) ==
    IF PostMessageThrows(hs[ch], ChannelEvent(topic, newValue))
    THEN [channel |-> ch, handles |-> hs, sent |-> <<>>,
          reopened |-> FALSE, threw |-> TRUE]
    ELSE [channel |-> ch, handles |-> hs,
          sent |-> <<[h |-> ch, msg |-> ChannelEvent(topic, newValue)]>>,
          reopened |-> FALSE, threw |-> FALSE]

\* postToChannel: health check, then post the payload envelope (not guarded).
PostToChannel(topic, ch, hs, newValue) ==
    LET hc == RunChannelHealthCheck(ch, hs)
        message == ChannelEvent(topic, newValue)
    IN IF PostMessageThrows(hc.handles[hc.channel], message)
       THEN [hc EXCEPT !.threw = TRUE]
       ELSE [hc EXCEPT !.sent = Append(@, [h |-> hc.channel, msg |-> message])]

\* Variant: the value is assigned but trigger() is not called.
OnBroadcastChannelMessage_NoTrigger(topic, current, e) ==
    IF e.name # topic
    THEN [value |-> current, notified |-> 0, sent |-> <<>>]
    ELSE [value |-> e.data, notified |-> 0, sent |-> <<>>]

\* Variant: no topic filter.
OnBroadcastChannelMessage_NoFilter(topic, current, e) ==
    [value |-> e.data, notified |-> 1, sent |-> <<>>]

\* Variant: the inbound value is assigned through the ref's setter, which
\* posts it again.
OnBroadcastChannelMessage_Echo(topic, current, e) ==
    IF e.name # topic
    THEN [value |-> current, notified |-> 0, sent |-> <<>>]
    ELSE [value |-> e.data, notified |-> 1,
          sent |-> <<[h |-> 0, msg |-> ChannelEvent(topic, e.data)]>>]

\* onBroadcastChannelMessage: the trigger callback is registered when the
\* customRef is built, before any listener exists; then the topic filter.
\* Result: the value, the number of trigger() calls, the messages posted.
\* Variant: only messages without a name are filtered out, a payload of any
\* topic is applied.
OnBroadcastChannelMessage_AnyTopic(topic, current, e) ==
    IF e.name = Undefined
    THEN [value |-> current, notified |-> 0, sent |-> <<>>]
    ELSE [value |-> e.data, notified |-> 1, sent |-> <<>>]

OnBroadcastChannelMessage(topic, current, e) ==
    IF e.name # topic
    THEN [value |-> current, notified |-> 0, sent |-> <<>>]
    ELSE [value |-> e.data, notified |-> 1, sent |-> <<>>]

\* Variant: the topic filter comes before the check of the trigger, so a
\* message of another topic or a sentinel is dropped without a log.
OnBroadcastChannelMessageGuarded_FilterFirst(registered, topic, current, e) ==
    IF e.name # topic
    THEN [value |-> current, notified |-> 0, sent |-> <<>>, logged |-> 0]
    ELSE IF ~registered
    THEN [value |-> current, notified |-> 0, sent |-> <<>>, logged |-> 1]
    ELSE [value |-> e.data, notified |-> 1, sent |-> <<>>, logged |-> 0]

\* onBroadcastChannelMessage from its first line: without a registered
\* trigger it logs an error and returns (lines 77-82); else the filter and
\* the assignment above (lines 84-89).
OnBroadcastChannelMessageGuarded(registered, topic, current, e) ==
    IF ~registered
    THEN [value |-> current, notified |-> 0, sent |-> <<>>, logged |-> 1]
    ELSE LET r == OnBroadcastChannelMessage(topic, current, e)
         IN [value |-> r.value, notified |-> r.notified, sent |-> r.sent, logged |-> 0]

\* The MessageEvent of a messageerror: the data could not be deserialized.
MessageErrorEvent == [event |-> Undefined, name |-> Undefined, data |-> "null"]

\* Variant: the error event is applied like a payload of the binding's topic.
OnBroadcastChannelError_Apply(topic, opts, current, e) ==
    [value |-> e.data, notified |-> 1, sent |-> <<>>, logged |-> 1,
     callbacks |-> IF opts.errorCallback THEN <<[topic |-> topic, e |-> e]>> ELSE <<>>]

\* onBroadcastChannelError: console.error, then options.errorCallback(event, e)
\* when one was supplied.  Nothing else is touched.
OnBroadcastChannelError(topic, opts, current, e) ==
    [value |-> current, notified |-> 0, sent |-> <<>>, logged |-> 1,
     callbacks |-> IF opts.errorCallback THEN <<[topic |-> topic, e |-> e]>> ELSE <<>>]

\* A reopen needs a fresh handle index: the model stops at MaxHandles.
CanRunHealthCheck(b) ==
    handles[b][channel[b]].state = "open" \/ NextHandle(handles[b]) <= MaxHandles

\* A step that queues delivery tasks is taken only while fewer than MaxTasks
\* are pending.
HasRoom(q) == q = <<>> \/ Len(tasks) < MaxTasks

Observation(op, b, arg, notified, sent, threw, reopened, msg) ==
    [op |-> op, b |-> b, arg |-> arg, notified |-> notified, sent |-> sent,
     threw |-> threw, reopened |-> reopened, msg |-> msg]

Effects(logged, callbacks, order) ==
    [logged |-> logged, callbacks |-> callbacks, order |-> order]
NoEffects == Effects(0, <<>>, <<>>)

\* The catch block of runChannelHealthCheck logs one error (line 71).
HealthCheckLogs(hc) == IF hc.reopened THEN 1 ELSE 0

\* The state once broadcasted() has returned for each binding of `made`.
\* With BroadcastChannel in window the channel is constructed (line 53),
\* nothing is mounted and no timer runs; without it one error is logged and a
\* plain ref is returned (lines 37-40).  The callers' choices are drawn from
\* `supported`, `callbacks` and `registered`; the factory of customRef runs
\* inside the call (line 156), so through the composable `registered` is TRUE.
Construct(made, supported, callbacks, registered) ==
    /\ impl = [b \in Bindings |-> "broadcasted"]
    /\ isSupported \in [Bindings -> supported]
    /\ options \in [Bindings -> {Options(t, c) : t \in TimeoutOptions, c \in callbacks}]
    /\ triggerRegistered \in [Bindings -> registered]
    /\ \A b \in Bindings \ made :
          /\ isSupported[b] = isSupported["A"]
          /\ options[b] = Options(Given(0), options["A"].errorCallback)
          /\ triggerRegistered[b] = triggerRegistered["A"]
    /\ event \in [Bindings -> Topics]
    /\ \A b \in Bindings \ (made \ {"A"}) : event[b] = "HelloWorld"
    /\ timeoutInMs = [b \in Bindings |->
                        IF isSupported[b] THEN ChannelHealthCheckTimeoutInMs(options[b])
                        ELSE 0]
    /\ value = [b \in Bindings |-> InitialValue]
    /\ channel = [b \in Bindings |-> IF isSupported[b] THEN 1 ELSE 0]
    /\ handles = [b \in Bindings |->
                    [h \in 1..MaxHandles |->
                        IF h = 1 /\ b \in made /\ isSupported[b]
                        THEN NewBroadcastChannel ELSE NoHandle]]
    /\ phase = [b \in Bindings |-> IF b \in made THEN "setup" ELSE "absent"]
    /\ channelHealthCheckInterval = [b \in Bindings |-> 0]
    /\ timers = [b \in Bindings |-> 0]
    /\ tasks = <<>>
    /\ last = Observation("init", "A", Undefined, 0, <<>>, FALSE, FALSE, NoMessage)
    /\ effects = Effects(Cardinality({b \in made : ~isSupported[b]}), <<>>, <<>>)

Constructed(made) == Construct(made, {TRUE}, {FALSE}, {TRUE})

\* One binding in this context; every other subscriber is a remote context.
Init == Constructed({"A"})

\* The posts of one postToChannel call, in the order made: the sentinel of
\* runChannelHealthCheck (line 69) comes before the payload (line 114).
SendOrder(sent) ==
    [i \in 1..Len(sent) |->
        IF sent[i].msg = HealthCheckMessage THEN "sentinel" ELSE "payload"]

\* Variant: postToChannel runs first, so a throw skips the assignment.
ValueReferenceSet_PostFirst(topic, current, ch, hs, newValue) ==
    LET p == PostToChannel(topic, ch, hs, newValue)
    IN [value |-> IF p.threw THEN current ELSE newValue,
        notified |-> IF p.threw THEN 0 ELSE 1,
        post |-> p,
        order |-> SendOrder(p.sent)
                  \o (IF p.threw THEN <<>> ELSE <<"assign", "trigger">>)]

\* Variant: the notification is raised after postToChannel, so the posts go
\* out before the observers are notified and a throw skips the notification.
ValueReferenceSet_NotifyLast(topic, current, ch, hs, newValue) ==
    LET p == PostToChannel(topic, ch, hs, newValue)
    IN [value |-> newValue,
        notified |-> IF p.threw THEN 0 ELSE 1,
        post |-> p,
        order |-> <<"assign">> \o SendOrder(p.sent)
                  \o (IF p.threw THEN <<>> ELSE <<"trigger">>)]

\* valueReference.set: assign, trigger(), then postToChannel.  Result: the
\* value get() returns afterwards, the number of trigger() calls, what
\* postToChannel did, and the order of the statements and of the posts.
ValueReferenceSet(topic, current, ch, hs, newValue) ==
    LET p == PostToChannel(topic, ch, hs, newValue)
    IN [value |-> newValue, notified |-> 1,
        post |-> p,
        order |-> <<"assign", "trigger">> \o SendOrder(p.sent)]

Set(b, newValue) ==
    LET r == ValueReferenceSet(event[b], value[b], channel[b], handles[b], newValue)
        p == r.post
        q == DeliveriesOfAll(b, p.sent)
    IN /\ impl[b] = "broadcasted" /\ isSupported[b] /\ phase[b] # "absent"
       /\ CanRunHealthCheck(b)
       /\ HasRoom(q)
       /\ value' = [value EXCEPT ![b] = r.value]
       /\ channel' = [channel EXCEPT ![b] = p.channel]
       /\ handles' = [handles EXCEPT ![b] = p.handles]
       /\ tasks' = tasks \o q
       /\ last' = Observation("set", b, newValue, r.notified, p.sent, p.threw, p.reopened,
                               NoMessage)
       /\ effects' = Effects(HealthCheckLogs(p), <<>>, r.order)
       /\ UNCHANGED <<config, phase, channelHealthCheckInterval, timers>>

\* Variant: the interval is never started.
OnMounted_NoInterval(h, timeout) ==
    [handle |-> [h EXCEPT !.listeners = @ \cup EventListenerKinds],
     interval |-> 0,
     started |-> 0]

\* Variant: the interval is started whatever the timeout.
OnMounted_AlwaysInterval(h, timeout) ==
    [handle |-> [h EXCEPT !.listeners = @ \cup EventListenerKinds],
     interval |-> 1,
     started |-> 1]

\* The onMounted callback: both listeners on the current handle, then the
\* interval when health checking is enabled.  Result: the handle, the id kept
\* in channelHealthCheckInterval, the number of setInterval calls.
OnMounted(h, timeout) ==
    [handle |-> [h EXCEPT !.listeners = @ \cup EventListenerKinds],
     interval |-> IF timeout > 0 THEN 1 ELSE 0,
     started |-> IF timeout > 0 THEN 1 ELSE 0]

Mount(b) ==
    LET m == OnMounted(handles[b][channel[b]], timeoutInMs[b])
    IN /\ impl[b] = "broadcasted" /\ isSupported[b] /\ phase[b] = "setup"
       /\ phase' = [phase EXCEPT ![b] = "mounted"]
       /\ handles' = [handles EXCEPT ![b][channel[b]] = m.handle]
       /\ channelHealthCheckInterval' = [channelHealthCheckInterval EXCEPT ![b] = m.interval]
       /\ timers' = [timers EXCEPT ![b] = @ + m.started]
       /\ last' = Observation("mount", b, Undefined, 0, <<>>, FALSE, FALSE, NoMessage)
       /\ effects' = NoEffects
       /\ UNCHANGED <<config, value, channel, tasks>>

\* Variant: the interval is not cleared.
OnUnmounted_KeepInterval(h, interval, running) ==
    [handle |-> Handle("closed", h.listeners \ EventListenerKinds,
                       IF h.state = "open" THEN "unmount" ELSE h.closedBy),
     running |-> running,
     order |-> <<"removeMessage", "removeMessageError", "close">>]

\* The onUnmounted callback: clearInterval, removeEventListener twice on the
\* current handle, close it.  Result: the handle, the intervals still
\* running, the order of the calls made.
OnUnmounted(h, interval, running) ==
    [handle |-> Handle("closed", h.listeners \ EventListenerKinds,
                       IF h.state = "open" THEN "unmount" ELSE h.closedBy),
     running |-> IF interval # 0 /\ running > 0 THEN running - 1 ELSE running,
     order |-> (IF interval # 0 THEN <<"clearInterval">> ELSE <<>>)
               \o <<"removeMessage", "removeMessageError", "close">>]

Unmount(b) ==
    LET u == OnUnmounted(handles[b][channel[b]], channelHealthCheckInterval[b], timers[b])
    IN /\ impl[b] = "broadcasted" /\ isSupported[b] /\ phase[b] = "mounted"
       /\ phase' = [phase EXCEPT ![b] = "unmounted"]
       /\ handles' = [handles EXCEPT ![b][channel[b]] = u.handle]
       /\ timers' = [timers EXCEPT ![b] = u.running]
       /\ last' = Observation("unmount", b, Undefined, 0, <<>>, FALSE, FALSE, NoMessage)
       /\ effects' = Effects(0, <<>>, u.order)
       /\ UNCHANGED <<config, value, channel, channelHealthCheckInterval, tasks>>

\* The setInterval callback: one runChannelHealthCheck.
HealthCheckTimer(b) ==
    LET hc == RunChannelHealthCheck(channel[b], handles[b])
        q == DeliveriesOfAll(b, hc.sent)
    IN /\ timers[b] > 0
       /\ CanRunHealthCheck(b)
       /\ HasRoom(q)
       /\ channel' = [channel EXCEPT ![b] = hc.channel]
       /\ handles' = [handles EXCEPT ![b] = hc.handles]
       /\ tasks' = tasks \o q
       /\ last' = Observation("timer", b, Undefined, 0, hc.sent, hc.threw, hc.reopened, NoMessage)
       /\ effects' = Effects(HealthCheckLogs(hc), <<>>, <<>>)
       /\ UNCHANGED <<config, value, phase, channelHealthCheckInterval, timers>>

\* useBroadcast.ts onChannelMessage once triggerChanges is known to be set
\* (lines 56-57): the message itself becomes the value.
OnChannelMessage(current, e) ==
    [value |-> e.data, notified |-> 1, sent |-> <<>>]

\* onChannelMessage from its first line: without triggerChanges it logs an
\* error and returns (useBroadcast.ts lines 50-55).
OnChannelMessageGuarded(registered, current, e) ==
    IF ~registered
    THEN [value |-> current, notified |-> 0, sent |-> <<>>, logged |-> 1]
    ELSE LET r == OnChannelMessage(current, e)
         IN [value |-> r.value, notified |-> r.notified, sent |-> r.sent, logged |-> 0]

\* The platform's delivery task: nothing on a closed channel object; else the
\* message event is fired and runs the listener if it is registered.
ListenerRuns(h) == h.state = "open" /\ "message" \in h.listeners

Deliver ==
    /\ tasks # <<>>
    /\ Head(tasks).msg # MessageErrorEvent
    /\ LET t == Head(tasks)
           r == IF ~ListenerRuns(handles[t.b][t.h])
                THEN [value |-> value[t.b], notified |-> 0, sent |-> <<>>, logged |-> 0]
                ELSE IF impl[t.b] = "broadcasted"
                THEN OnBroadcastChannelMessageGuarded(triggerRegistered[t.b], event[t.b],
                                                      value[t.b], t.msg)
                ELSE OnChannelMessageGuarded(triggerRegistered[t.b], value[t.b], t.msg)
           q == DeliveriesOfAll(t.b, r.sent)
       IN /\ value' = [value EXCEPT ![t.b] = r.value]
          /\ last' = Observation(IF ListenerRuns(handles[t.b][t.h]) THEN "message" ELSE "dropped",
                                 t.b, Undefined, r.notified, r.sent, FALSE, FALSE, t.msg)
          /\ tasks' = Tail(tasks) \o q
          /\ effects' = Effects(r.logged, <<>>, <<>>)
    /\ UNCHANGED <<config, channel, handles, phase,
                   channelHealthCheckInterval, timers>>

\* Another browsing context posts on the shared channel name.
RemoteMessages ==
    {ChannelEvent(t, v) : t \in Topics, v \in RemoteValues} \cup {HealthCheckMessage}

RemotePost(m) ==
    LET q == DeliveriesFrom("remote", CHANNEL_NAME, m, 1)
    IN /\ q # <<>>
       /\ HasRoom(q)
       /\ tasks' = tasks \o q
       /\ last' = Observation("remote", "A", Undefined, 0, <<>>, FALSE, FALSE, m)
       /\ effects' = NoEffects
       /\ UNCHANGED <<config, value, channel, handles, phase,
                      channelHealthCheckInterval, timers>>

\* Another browsing context posts data this context cannot deserialize: the
\* platform queues a messageerror for every open handle of the channel name.
RemoteError ==
    LET q == DeliveriesFrom("remote", CHANNEL_NAME, MessageErrorEvent, 1)
    IN /\ q # <<>>
       /\ HasRoom(q)
       /\ tasks' = tasks \o q
       /\ last' = Observation("remote", "A", Undefined, 0, <<>>, FALSE, FALSE,
                               MessageErrorEvent)
       /\ effects' = NoEffects
       /\ UNCHANGED <<config, value, channel, handles, phase,
                      channelHealthCheckInterval, timers>>

\* The platform fires messageerror at its destination, whose listener, if
\* still registered on an open handle, is onBroadcastChannelError.
ErrorListenerRuns(h) == h.state = "open" /\ "messageerror" \in h.listeners

DeliverError ==
    /\ tasks # <<>>
    /\ Head(tasks).msg = MessageErrorEvent
    /\ impl[Head(tasks).b] = "broadcasted"
    /\ LET t == Head(tasks)
           r == IF ErrorListenerRuns(handles[t.b][t.h])
                THEN OnBroadcastChannelError(event[t.b], options[t.b], value[t.b], t.msg)
                ELSE [value |-> value[t.b], notified |-> 0, sent |-> <<>>,
                      logged |-> 0, callbacks |-> <<>>]
           q == DeliveriesOfAll(t.b, r.sent)
       IN /\ value' = [value EXCEPT ![t.b] = r.value]
          /\ last' = Observation(IF ErrorListenerRuns(handles[t.b][t.h])
                                 THEN "messageerror" ELSE "dropped",
                                 t.b, Undefined, r.notified, r.sent, FALSE, FALSE, t.msg)
          /\ tasks' = Tail(tasks) \o q
          /\ effects' = Effects(r.logged, r.callbacks, <<>>)
    /\ UNCHANGED <<config, channel, handles, phase,
                   channelHealthCheckInterval, timers>>

\* The holder of the returned `channel` ref closes the handle itself.
ExternalClose(b) ==
    /\ impl[b] = "broadcasted" /\ isSupported[b]
    /\ handles[b][channel[b]].state = "open"
    /\ handles' = [handles EXCEPT ![b][channel[b]] =
                      Handle("closed", @.listeners, "outside")]
    /\ last' = Observation("close", b, Undefined, 0, <<>>, FALSE, FALSE, NoMessage)
    /\ effects' = NoEffects
    /\ UNCHANGED <<config, value, channel, phase,
                   channelHealthCheckInterval, timers, tasks>>

Next ==
    \/ \E b \in Bindings, v \in SetValues : Set(b, v)
    \/ \E b \in Bindings : Mount(b)
    \/ \E b \in Bindings : Unmount(b)
    \/ \E b \in Bindings : HealthCheckTimer(b)
    \/ Deliver
    \/ \E m \in RemoteMessages : RemotePost(m)
    \/ \E b \in Bindings : ExternalClose(b)

Spec == Init /\ [][Next]_vars

-----------------------------------------------------------------------------
(* useBroadcast.ts *)

\* After useBroadcast's broadcasted() has returned: no channel yet, and
\* nothing logged whatever isSupported is (line 44).
ConstructUse(supported, registered) ==
    /\ impl = [b \in Bindings |-> IF b = "A" THEN "useBroadcast" ELSE "broadcasted"]
    /\ isSupported \in [Bindings -> supported]
    /\ isSupported["B"] = isSupported["A"]
    /\ options = [b \in Bindings |-> Options(Given(0), FALSE)]
    /\ triggerRegistered \in [Bindings -> registered]
    /\ triggerRegistered["B"] = triggerRegistered["A"]
    /\ event \in [Bindings -> UseBroadcastTopics \cup Topics]
    /\ event["A"] \in UseBroadcastTopics /\ event["B"] = "HelloWorld"
    /\ timeoutInMs = [b \in Bindings |-> 0]
    /\ value = [b \in Bindings |-> InitialValue]
    /\ channel = [b \in Bindings |-> IF b = "A" THEN 0 ELSE 1]
    /\ handles = [b \in Bindings |-> [h \in 1..MaxHandles |-> NoHandle]]
    /\ phase = [b \in Bindings |-> IF b = "A" THEN "setup" ELSE "absent"]
    /\ channelHealthCheckInterval = [b \in Bindings |-> 0]
    /\ timers = [b \in Bindings |-> 0]
    /\ tasks = <<>>
    /\ last = Observation("init", "A", Undefined, 0, <<>>, FALSE, FALSE, NoMessage)
    /\ effects = NoEffects

InitUse == ConstructUse({TRUE}, {TRUE})

\* onMounted: nothing when !isSupported; else construct the channel and add
\* both listeners.
UseMount(b) ==
    /\ impl[b] = "useBroadcast" /\ phase[b] = "setup"
    /\ phase' = [phase EXCEPT ![b] = "mounted"]
    /\ channel' = IF isSupported[b]
                  THEN [channel EXCEPT ![b] = NextHandle(handles[b])]
                  ELSE channel
    /\ handles' = IF isSupported[b]
                  THEN [handles EXCEPT ![b][NextHandle(handles[b])] =
                          Handle("open", EventListenerKinds, "nobody")]
                  ELSE handles
    /\ last' = Observation("mount", b, Undefined, 0, <<>>, FALSE, FALSE, NoMessage)
    /\ effects' = NoEffects
    /\ UNCHANGED <<config, value, channelHealthCheckInterval, timers, tasks>>

\* onUnmounted: nothing without a channel; else remove the listeners and close.
UseUnmount(b) ==
    /\ impl[b] = "useBroadcast" /\ phase[b] = "mounted"
    /\ phase' = [phase EXCEPT ![b] = "unmounted"]
    /\ handles' = IF channel[b] = 0 THEN handles
                  ELSE [handles EXCEPT ![b][channel[b]] =
                          Handle("closed", @.listeners \ EventListenerKinds, "unmount")]
    /\ last' = Observation("unmount", b, Undefined, 0, <<>>, FALSE, FALSE, NoMessage)
    /\ effects' = NoEffects
    /\ UNCHANGED <<config, value, channel, channelHealthCheckInterval, timers, tasks>>

\* Variant of the setter below: the post comes first, so a throw skips the
\* assignment.
UseValueSet_PostFirst(current, ch, hs, newValue) ==
    IF ch = 0
    THEN [value |-> newValue, notified |-> 1, sent |-> <<>>, threw |-> FALSE]
    ELSE IF PostMessageThrows(hs[ch], RawMessage(newValue))
    THEN [value |-> current, notified |-> 0, sent |-> <<>>, threw |-> TRUE]
    ELSE [value |-> newValue, notified |-> 1,
          sent |-> <<[h |-> ch, msg |-> RawMessage(newValue)]>>, threw |-> FALSE]

\* The customRef setter: assign, trigger(), then post the bare value if there
\* is a channel (the post is not guarded).
UseValueSet(current, ch, hs, newValue) ==
    IF ch = 0
    THEN [value |-> newValue, notified |-> 1, sent |-> <<>>, threw |-> FALSE]
    ELSE IF PostMessageThrows(hs[ch], RawMessage(newValue))
    THEN [value |-> newValue, notified |-> 1, sent |-> <<>>, threw |-> TRUE]
    ELSE [value |-> newValue, notified |-> 1,
          sent |-> <<[h |-> ch, msg |-> RawMessage(newValue)]>>, threw |-> FALSE]

UseSet(b, newValue) ==
    LET r == UseValueSet(value[b], channel[b], handles[b], newValue)
        q == DeliveriesOfAll(b, r.sent)
    IN /\ impl[b] = "useBroadcast" /\ phase[b] # "absent"
       /\ HasRoom(q)
       /\ value' = [value EXCEPT ![b] = r.value]
       /\ tasks' = tasks \o q
       /\ last' = Observation("set", b, newValue, r.notified, r.sent, r.threw, FALSE, NoMessage)
       /\ effects' = NoEffects
       /\ UNCHANGED <<config, channel, handles, phase, channelHealthCheckInterval, timers>>

\* Another browsing context posts a value on the binding's topic channel.
UseRemotePost(b, v) ==
    LET q == DeliveriesFrom("remote", event[b], RawMessage(v), 1)
    IN /\ impl[b] = "useBroadcast"
       /\ q # <<>>
       /\ HasRoom(q)
       /\ tasks' = tasks \o q
       /\ last' = Observation("remote", b, Undefined, 0, <<>>, FALSE, FALSE, RawMessage(v))
       /\ effects' = NoEffects
       /\ UNCHANGED <<config, value, channel, handles, phase,
                      channelHealthCheckInterval, timers>>

NextUse ==
    \/ \E b \in Bindings : UseMount(b)
    \/ \E b \in Bindings : UseUnmount(b)
    \/ \E b \in Bindings, v \in SetValues : UseSet(b, v)
    \/ \E b \in Bindings, v \in RemoteValues \cup {InitialValue} : UseRemotePost(b, v)
    \/ Deliver

(* The interval keeps firing *)

\* One binding whose handle can be closed from outside as long as a reopen
\* still has a handle index left; setInterval keeps calling its callback
\* until clearInterval, hence the weak fairness of the timer step.  set() is
\* possible at any time and never required.
NextTimer ==
    \/ \E b \in Bindings : Mount(b)
    \/ \E b \in Bindings : Unmount(b)
    \/ \E b \in Bindings, v \in SetValues : Set(b, v)
    \/ \E b \in Bindings : HealthCheckTimer(b)
    \/ \E b \in Bindings : ExternalClose(b) /\ NextHandle(handles[b]) <= MaxHandles
SpecTimer ==
    Init /\ [][NextTimer]_vars /\ WF_vars(\E b \in Bindings : HealthCheckTimer(b))

(* Receive errors *)

\* One binding, with or without an errorCallback, receiving payloads and
\* messageerror events from other contexts.
InitError == Construct({"A"}, {TRUE}, BOOLEAN, {TRUE})
NextError ==
    \/ \E b \in Bindings : Mount(b)
    \/ \E b \in Bindings : Unmount(b)
    \/ \E b \in Bindings : ExternalClose(b)
    \/ \E m \in RemoteMessages : RemotePost(m)
    \/ RemoteError
    \/ Deliver
    \/ DeliverError
SpecError == InitError /\ [][NextError]_vars

(* The message listeners as functions of the trigger registration *)

\* The listeners of either composable run with the trigger registered or
\* not.  Through the composables the trigger is always registered before a
\* listener exists (customRef runs its factory inside the call, the
\* listeners are added on mount), so the unregistered case is an input drawn
\* here, and the setter, which lives in the same factory, is left out.
InitHandler == Construct({"A"}, {TRUE}, {FALSE}, BOOLEAN) \/ ConstructUse({TRUE}, BOOLEAN)
NextHandler ==
    \/ \E b \in Bindings : Mount(b)
    \/ \E b \in Bindings : Unmount(b)
    \/ \E b \in Bindings : UseMount(b)
    \/ \E b \in Bindings : UseUnmount(b)
    \/ \E m \in RemoteMessages : RemotePost(m)
    \/ \E b \in Bindings, v \in RemoteValues \cup {InitialValue} : UseRemotePost(b, v)
    \/ Deliver
SpecHandler == InitHandler /\ [][NextHandler]_vars

(* No BroadcastChannel in window *)

\* broadcasted() returned ref(value) at line 39: a plain Vue ref, whose
\* setter notifies when the value changed, and no lifecycle hook was
\* registered, so mounting and unmounting the component run no code of the
\* binding.
RefSet(b, newValue) ==
    /\ impl[b] = "broadcasted" /\ ~isSupported[b] /\ phase[b] # "absent"
    /\ value' = [value EXCEPT ![b] = newValue]
    /\ last' = Observation("set", b, newValue, IF newValue # value[b] THEN 1 ELSE 0,
                            <<>>, FALSE, FALSE, NoMessage)
    /\ effects' = NoEffects
    /\ UNCHANGED <<config, channel, handles, phase, channelHealthCheckInterval,
                   timers, tasks>>

RefMount(b) ==
    /\ impl[b] = "broadcasted" /\ ~isSupported[b] /\ phase[b] = "setup"
    /\ phase' = [phase EXCEPT ![b] = "mounted"]
    /\ last' = Observation("mount", b, Undefined, 0, <<>>, FALSE, FALSE, NoMessage)
    /\ effects' = NoEffects
    /\ UNCHANGED <<config, value, channel, handles, channelHealthCheckInterval,
                   timers, tasks>>

RefUnmount(b) ==
    /\ impl[b] = "broadcasted" /\ ~isSupported[b] /\ phase[b] = "mounted"
    /\ phase' = [phase EXCEPT ![b] = "unmounted"]
    /\ last' = Observation("unmount", b, Undefined, 0, <<>>, FALSE, FALSE, NoMessage)
    /\ effects' = NoEffects
    /\ UNCHANGED <<config, value, channel, handles, channelHealthCheckInterval,
                   timers, tasks>>

\* Either composable in an environment without BroadcastChannel.
InitLocal == Construct({"A"}, {FALSE}, {FALSE}, {TRUE}) \/ ConstructUse({FALSE}, {TRUE})
NextLocal ==
    \/ \E b \in Bindings, v \in SetValues \cup {InitialValue} : RefSet(b, v)
    \/ \E b \in Bindings : RefMount(b)
    \/ \E b \in Bindings : RefUnmount(b)
    \/ \E b \in Bindings, v \in SetValues \cup {InitialValue} : UseSet(b, v)
    \/ \E b \in Bindings : UseMount(b)
    \/ \E b \in Bindings : UseUnmount(b)
SpecLocal == InitLocal /\ [][NextLocal]_vars

\* Either composable, one binding.
InitAny == Init \/ InitUse
NextAny == Next \/ NextUse
SpecAny == InitAny /\ [][NextAny]_vars

\* Two bindings in one context, mounted and left alone: A writes, the timers
\* tick, and the event loop runs every queued delivery task.
InitPair == Constructed(Bindings)

NextPair ==
    \/ \E b \in Bindings : Mount(b)
    \/ \E v \in SetValues : Set("A", v)
    \/ \E b \in Bindings : HealthCheckTimer(b)
    \/ Deliver

SpecPair == InitPair /\ [][NextPair]_vars /\ WF_vars(Deliver)

-----------------------------------------------------------------------------
(* Properties *)

IsPayload(s) == s.msg # HealthCheckMessage
Payloads(sent) == SelectSeq(sent, IsPayload)
Sentinels(sent) == SelectSeq(sent, LAMBDA s : ~IsPayload(s))
Current(b) == handles[b][channel[b]]
Get(b) == value[b]

\* C1: get() right after set(v) returns v, whatever the state of the handle
\* (open, closed, or closed by unmount), in both composables.
C1_ReadAfterWrite ==
    last.op = "set" => Get(last.b) = last.arg

\* set() was called after unmount on a dead handle with a value whose post throws.
C1_Witness ==
    /\ last.op = "set" /\ last.reopened /\ last.threw
    /\ phase[last.b] = "unmounted"
    /\ Get(last.b) = last.arg

\* useBroadcast.ts: set() after unmount posts on the closed channel and throws;
\* the value was assigned first.
C1_UseBroadcastCase ==
    /\ last.op = "set" /\ last.threw /\ impl[last.b] = "useBroadcast"
    /\ phase[last.b] = "unmounted" /\ IsCloneable(last.arg)
    /\ Get(last.b) = last.arg

\* C2: a handled inbound payload tagged with the binding's topic becomes the
\* value, raises exactly one notification and posts nothing.
C2_InboundApplied ==
    (last.op = "message" /\ last.msg.name = event[last.b]) =>
        /\ Get(last.b) = last.msg.data
        /\ last.notified = 1
        /\ last.sent = <<>>

C2_Witness ==
    /\ last.op = "message" /\ last.msg.name = event[last.b]
    /\ Get(last.b) = "7" /\ last.notified = 1

\* C3 as stated, for serializable v: one payload post per set(v) on a healthy
\* handle; on a handle that is broken when set(v) is called, no payload post
\* and a reopen.
C3_Original ==
    (last.op = "set" /\ IsCloneable(last.arg)) =>
        IF last.reopened
        THEN Payloads(last.sent) = <<>>
        ELSE Payloads(last.sent) =
                <<[h |-> channel[last.b], msg |-> ChannelEvent(event[last.b], last.arg)]>>

\* C3 amended: set(v) of a serializable v posts exactly one payload carrying v
\* under the binding's topic, on the current handle, also when the handle was
\* broken at the call: then the sentinel is what fails, the handle is replaced
\* and the payload goes out once on the replacement.  A value that cannot be
\* serialized is posted zero times.  No payload is posted twice.
C3_OnePayloadPerSet ==
    last.op = "set" =>
        /\ Payloads(last.sent) =
                IF IsCloneable(last.arg)
                THEN <<[h |-> channel[last.b],
                        msg |-> ChannelEvent(event[last.b], last.arg)]>>
                ELSE <<>>
        /\ Len(Sentinels(last.sent)) = IF last.reopened THEN 0 ELSE 1
        /\ Current(last.b).state = "open"

\* set("5") on a broken handle: reopened, and the payload went out on the new handle.
C3_Witness ==
    /\ last.op = "set" /\ last.arg = "5" /\ last.reopened
    /\ last.sent = <<[h |-> channel[last.b], msg |-> ChannelEvent(event[last.b], "5")]>>
    /\ channel[last.b] > 1

\* C4: while mounted, the current handle carries both inbound listeners.
C4_ListenersOnCurrentHandle ==
    \A b \in Bindings :
        phase[b] = "mounted" => EventListenerKinds \subseteq Current(b).listeners

\* C5: set(v) returns normally for every state of the handle and every v.
C5_SetNeverThrows ==
    last.op = "set" => ~last.threw

\* C6: handling an inbound health-check sentinel leaves the value as it was
\* and raises no notification.
C6_SentinelIgnored ==
    [][(last'.op = "message" /\ last'.msg = HealthCheckMessage) =>
            /\ value' = value
            /\ last'.notified = 0]_vars

\* The listener ran on a sentinel while the binding held a value set earlier.
C6_Witness ==
    /\ last.op = "message" /\ last.msg = HealthCheckMessage
    /\ Get(last.b) = "5"

\* C7: two mounted bindings of one topic; after A's set("5") B's get()
\* eventually returns "5" though B never calls set; no delivery to A assigns
\* A's value or notifies A, and no handled message makes the receiver post.
C7_PeerReceivesNoEcho ==
    /\ (/\ phase["A"] = "mounted" /\ phase["B"] = "mounted"
        /\ event["A"] = event["B"]
        /\ last.op = "set" /\ last.b = "A" /\ last.arg = "5")
          ~> (Get("B") = "5")
    /\ [][/\ (last'.op \in {"message", "dropped"} /\ last'.b = "A") =>
                (value'["A"] = value["A"] /\ last'.notified = 0)
          /\ last'.op = "message" => last'.sent = <<>>]_vars

\* B's listener has applied A's "5"; A still holds the "5" it set.
C7_Witness ==
    /\ last.op = "message" /\ last.b = "B" /\ last.notified = 1
    /\ last.msg = ChannelEvent(event["A"], "5")
    /\ Get("B") = "5" /\ Get("A") = "5"
    /\ phase["A"] = "mounted" /\ phase["B"] = "mounted"

\* C8: a reopen leaves every earlier handle closed and the new current handle
\* open; every payload is posted on the current, open handle; a later set("7")
\* posts the payload 7 there.
C8_ReopenThenPublish ==
    /\ last.reopened =>
            /\ Current(last.b).state = "open"
            /\ \A h \in 1..(channel[last.b] - 1) : handles[last.b][h].state = "closed"
    /\ \A i \in 1..Len(last.sent) :
            /\ last.sent[i].h = channel[last.b]
            /\ Current(last.b).state = "open"
    /\ (last.op = "set" /\ last.arg = "7") =>
            [h |-> channel[last.b], msg |-> ChannelEvent(event[last.b], "7")]
                \in {last.sent[i] : i \in 1..Len(last.sent)}

\* set("7") on the handle that an earlier failed send had put in place.
C8_Witness ==
    /\ last.op = "set" /\ last.arg = "7" /\ ~last.reopened
    /\ channel[last.b] = 2
    /\ handles[last.b][1].state = "closed"
    /\ last.sent = <<[h |-> 2, msg |-> HealthCheckMessage],
                     [h |-> 2, msg |-> ChannelEvent(event[last.b], "7")]>>

\* C9: once a binding is unmounted, no delivery changes its value or notifies,
\* and its interval callback never runs.
C9_QuietAfterUnmount ==
    [][\A b \in Bindings :
          (phase[b] = "unmounted" /\ last'.b = b
             /\ last'.op \in {"message", "dropped", "timer"}) =>
                /\ last'.op = "dropped"
                /\ value'[b] = value[b]
                /\ last'.notified = 0]_vars

\* A payload of the binding's topic was delivered after unmount, the handle
\* having been replaced while mounted (handle 2 is the one unmount closed).
C9_Witness ==
    /\ phase[last.b] = "unmounted"
    /\ last.op = "dropped" /\ last.msg.name = event[last.b]
    /\ handles[last.b][2].closedBy = "unmount"
    /\ timeoutInMs[last.b] > 0

\* C10 as stated: never more than one open handle, never zero while mounted.
C10_Original ==
    \A b \in Bindings :
        /\ Cardinality(OpenHandles(b)) <= 1
        /\ phase[b] = "mounted" => Cardinality(OpenHandles(b)) >= 1

\* C10 amended: never more than one open handle; a mounted binding is without
\* an open handle only after its current handle was closed from outside, and
\* every health check or set() leaves it with exactly one.
C10_AtMostOneOpen ==
    \A b \in Bindings :
        /\ Cardinality(OpenHandles(b)) <= 1
        /\ (phase[b] = "mounted" /\ OpenHandles(b) = {}) =>
                Current(b).closedBy = "outside"
        /\ (last.b = b /\ last.op \in {"set", "timer"}) =>
                OpenHandles(b) = {channel[b]}

\* A health check has replaced a handle closed from outside while mounted.
C10_Witness ==
    /\ last.op = "timer" /\ last.reopened
    /\ phase[last.b] = "mounted"
    /\ OpenHandles(last.b) = {channel[last.b]}
    /\ handles[last.b][1].closedBy = "outside"

\* C11: the health-check interval runs only while the binding is mounted and
\* only when the resolved timeout is positive: with timeoutInMs = 0 no
\* interval is ever started, with the option omitted the mounted binding runs
\* one interval whose period is the positive default, and a binding never
\* runs more than one interval.
C11_TimerOnlyWhileMounted ==
    \A b \in Bindings :
        /\ timers[b] <= 1
        /\ timers[b] > 0 => phase[b] = "mounted" /\ timeoutInMs[b] > 0
        /\ options[b].timeoutInMs = Given(0) => timers[b] = 0
        /\ (options[b].timeoutInMs = Omitted /\ phase[b] = "mounted") =>
              /\ timers[b] = 1
              /\ timeoutInMs[b] = DefaultTimeoutInMs
              /\ DefaultTimeoutInMs > 0

\* C11 witness: a binding built without timeoutInMs has just been mounted and
\* its interval runs.
C11_Witness ==
    /\ last.op = "mount"
    /\ options[last.b].timeoutInMs = Omitted
    /\ timers[last.b] = 1

\* C12: without BroadcastChannel in window the binding is a purely local
\* cell: after set(v) get() returns v, no handle is ever constructed, nothing
\* is ever sent or queued, no interval runs, mounting and unmounting touch no
\* handle, and exactly one error is logged: by the call that builds the
\* binding, and by no later step.
C12_LocalOnly ==
    \A b \in Bindings :
        (phase[b] # "absent" /\ ~isSupported[b]) =>
            /\ (last.op = "set" /\ last.b = b) => Get(b) = last.arg
            /\ channel[b] = 0
            /\ \A h \in 1..MaxHandles : handles[b][h] = NoHandle
            /\ last.sent = <<>> /\ tasks = <<>> /\ ~last.threw
            /\ timers[b] = 0
            /\ effects.logged = IF last.op = "init" THEN 1 ELSE 0

\* C13: a step in which onBroadcastChannelError handles a messageerror leaves
\* the value unchanged, raises no notification and sends nothing; it logs one
\* error and, when an errorCallback was supplied, calls it exactly once with
\* the binding's topic and the raw error event; without one nothing is called.
C13_ErrorLeavesValue ==
    [][last'.op = "messageerror" =>
          /\ value' = value
          /\ last'.notified = 0 /\ last'.sent = <<>> /\ ~last'.threw
          /\ tasks' = Tail(tasks)
          /\ UNCHANGED <<channel, handles, timers>>
          /\ effects'.logged = 1
          /\ effects'.callbacks =
                IF options[last'.b].errorCallback
                THEN <<[topic |-> event[last'.b], e |-> last'.msg]>>
                ELSE <<>>]_vars

\* C13 witnesses: a messageerror was handled with an errorCallback supplied,
\* on a binding whose value had already been changed by a payload; and one
\* was handled without errorCallback.
C13_Witness ==
    /\ last.op = "messageerror"
    /\ options[last.b].errorCallback
    /\ Len(effects.callbacks) = 1
    /\ value[last.b] # InitialValue

C13_WitnessNoCallback ==
    /\ last.op = "messageerror"
    /\ ~options[last.b].errorCallback
    /\ effects.callbacks = <<>>

\* C14: one set(newValue) of broadcasted.ts assigns the value, then raises
\* the notification, then sends the sentinel, then sends the payload: every
\* post of the call comes after the assignment and the notification, a
\* sentinel never follows a payload, and when anything was sent get() returns
\* newValue and the observers were notified.
C14_SetOrder ==
    (last.op = "set" /\ impl[last.b] = "broadcasted" /\ isSupported[last.b]) =>
        LET o == effects.order
        IN /\ Len(o) = 2 + Len(last.sent)
           /\ o[1] = "assign" /\ o[2] = "trigger"
           /\ \A i \in 3..Len(o) : o[i] \in {"sentinel", "payload"}
           /\ \A i, j \in 3..Len(o) :
                 (o[i] = "sentinel" /\ o[j] = "payload") => i < j
           /\ last.sent # <<>> => (Get(last.b) = last.arg /\ last.notified = 1)

\* C14 witness: a set() that sent both the sentinel and the payload.
C14_Witness ==
    /\ last.op = "set"
    /\ effects.order = <<"assign", "trigger", "sentinel", "payload">>
    /\ Len(last.sent) = 2

\* C15: onUnmounted stops the interval, removes the message listener, removes
\* the messageerror listener and closes the handle, in that order and on the
\* handle that is current at that moment: that handle ends closed by the
\* unmount, without listeners, and no interval runs.  Hence no health check
\* runs on a handle the unmount closed: a health check that found its handle
\* broken found one closed by somebody else.
C15_DetachOrder ==
    /\ (last.op = "unmount" /\ impl[last.b] = "broadcasted") =>
          /\ effects.order = (IF timeoutInMs[last.b] > 0 THEN <<"clearInterval">> ELSE <<>>)
                              \o <<"removeMessage", "removeMessageError", "close">>
          /\ Current(last.b).state = "closed"
          /\ Current(last.b).listeners = {}
          /\ timers[last.b] = 0
    /\ (last.op \in {"set", "timer"} /\ last.reopened) =>
          handles[last.b][channel[last.b] - 1].closedBy # "unmount"

\* C16: every binding of broadcasted.ts uses the one channel name, and the
\* topics are kept apart by the name tag: handling a payload tagged with
\* another topic leaves the value unchanged and notifies nobody, and the
\* value of a binding is its initial value until a step changes it, which
\* only a local set (to the value set) or an inbound message tagged with the
\* binding's own topic (to the data it carries) does.
C16_TopicIsolation ==
    /\ [](\A b \in Bindings :
            /\ impl[b] = "broadcasted" => ChannelName(b) = CHANNEL_NAME
            /\ last.op = "init" => value[b] = InitialValue)
    /\ [][/\ (last'.op = "message" /\ last'.msg.name # event[last'.b]) =>
                (value' = value /\ last'.notified = 0)
          /\ \A b \in Bindings :
                value'[b] # value[b] =>
                    /\ last'.b = b
                    /\ \/ last'.op = "set" /\ value'[b] = last'.arg
                       \/ /\ last'.op = "message"
                          /\ last'.msg.name = event[b]
                          /\ value'[b] = last'.msg.data]_vars

\* C16 witness: the listener handled a payload tagged with another topic and
\* the binding does not hold the data it carried.
C16_Witness ==
    /\ last.op = "message"
    /\ last.msg.name \in Topics \ {event[last.b]}
    /\ IsCloneable(last.msg.data)
    /\ value[last.b] # last.msg.data

\* C17: no handle outlives the binding: once the binding is unmounted none
\* of its handles is open, and no later step opens a handle or sends
\* anything for it.
C17_NoHandleAfterUnmount ==
    \A b \in Bindings :
        (impl[b] = "broadcasted" /\ phase[b] = "unmounted") =>
            /\ OpenHandles(b) = {}
            /\ (last.b = b /\ last.op = "set") => (last.sent = <<>> /\ ~last.reopened)

\* C18: when the handle of a mounted binding with health checking enabled is
\* broken, the binding eventually holds an open current handle again (or is
\* unmounted), whether or not set() is ever called; with health checking
\* disabled the current handle is only ever replaced by a local set().
C18_TimerHeals ==
    /\ \A b \in Bindings :
          (phase[b] = "mounted" /\ timeoutInMs[b] > 0 /\ Current(b).state = "closed")
              ~> (phase[b] = "unmounted" \/ Current(b).state = "open")
    /\ [][\A b \in Bindings :
            (timeoutInMs[b] = 0 /\ channel'[b] # channel[b]) =>
                (last'.op = "set" /\ last'.b = b)]_vars

\* C18 witnesses: the interval's health check replaced a handle closed from
\* outside while the binding was mounted; and, with health checking
\* disabled, a set() replaced one.
C18_Witness ==
    /\ last.op = "timer" /\ last.reopened
    /\ phase[last.b] = "mounted"
    /\ handles[last.b][channel[last.b] - 1].closedBy = "outside"
    /\ Current(last.b).state = "open"

C18_WitnessDisabled ==
    /\ last.op = "set" /\ last.reopened
    /\ phase[last.b] = "mounted"
    /\ timeoutInMs[last.b] = 0

\* C19: the handle is opened by the onMounted callback: a binding that has
\* not been mounted yet holds no open handle, and once it is mounted the
\* handle with the listeners (and the interval) is one that was opened by the
\* mount.
C19_OpenedOnMount ==
    \A b \in Bindings :
        /\ phase[b] = "setup" => OpenHandles(b) = {}
        /\ (last.op = "mount" /\ last.b = b) =>
              /\ OpenHandles(b) = {channel[b]}
              /\ Current(b).listeners = EventListenerKinds

\* C20: a message handled by the listener while the trigger is not
\* registered is dropped: the value is unchanged, nobody is notified, nothing
\* is sent or thrown, and one error is logged; the check comes before the
\* topic filter, so this holds for payloads of the binding's topic, payloads
\* of other topics and sentinels alike.
C20_DroppedWithoutTrigger ==
    [][(last'.op = "message" /\ ~triggerRegistered[last'.b]) =>
          /\ value' = value
          /\ last'.notified = 0 /\ last'.sent = <<>> /\ ~last'.threw
          /\ effects'.logged = 1]_vars

\* C20 witnesses: without a trigger the listener dropped a payload of the
\* binding's own topic carrying another value than the binding holds; and it
\* logged for a sentinel.
C20_Witness ==
    /\ last.op = "message"
    /\ ~triggerRegistered[last.b]
    /\ impl[last.b] = "broadcasted"
    /\ last.msg.name = event[last.b]
    /\ value[last.b] # last.msg.data
    /\ effects.logged = 1

C20_WitnessSentinel ==
    /\ last.op = "message"
    /\ ~triggerRegistered[last.b]
    /\ last.msg = HealthCheckMessage
    /\ effects.logged = 1

C20_WitnessUseBroadcast ==
    /\ last.op = "message"
    /\ ~triggerRegistered[last.b]
    /\ impl[last.b] = "useBroadcast"
    /\ value[last.b] # last.msg.data
    /\ effects.logged = 1

====
